---------------------------- MODULE Spec2Model ----------------------------
(***************************************************************************)
(* A model of the InvertedIndex class of src/inverted_index.py: the        *)
(* tokenizer (preprocess), the index store (add_document,                  *)
(* build_from_documents), the query methods and the save/load codec.       *)
(*                                                                         *)
(* A text is a sequence of one-character strings.  A token (term) is a     *)
(* non-empty sequence of characters.  A Python dict is a function whose    *)
(* DOMAIN is its key set; the empty dict is the empty function <<>>.       *)
(***************************************************************************)
EXTENDS Integers, Sequences, FiniteSets, TLC

VARIABLES
  index,        \* self.index: term -> (doc_id -> list of positions)
  documents,    \* self.documents: doc_id -> content
  doc_lengths,  \* self.doc_lengths: doc_id -> number of tokens
  file,         \* NoFile, or <<the record save_to_file wrote>>
  call,         \* the method call that has just returned (name, arguments), or Idle
  ret,          \* what that call returned
  nAdds,        \* number of add_document calls made so far
  nSaves,       \* number of save_to_file calls made so far
  writer        \* the add_document call that a second caller is in the middle of

vars == <<index, documents, doc_lengths, file, call, ret, nAdds, nSaves, writer>>

-----------------------------------------------------------------------------
(* Bounds of the model *)

MaxAdds == 2    \* add_document calls in one behaviour
MaxSaves == 1   \* save_to_file calls in one behaviour
MaxTerms == 2   \* strings in the term lists handed to a query
MaxTextLen == 3 \* characters of a text handed to preprocess on its own

-----------------------------------------------------------------------------
(* Characters *)

LowerAlphabet ==
  << "a","b","c","d","e","f","g","h","i","j","k","l","m",
     "n","o","p","q","r","s","t","u","v","w","x","y","z" >>

UpperAlphabet ==
  << "A","B","C","D","E","F","G","H","I","J","K","L","M",
     "N","O","P","Q","R","S","T","U","V","W","X","Y","Z" >>

Digits == {"0","1","2","3","4","5","6","7","8","9"}

Range(s) == {s[i] : i \in DOMAIN s}

LowerChars == Range(LowerAlphabet)
UpperChars == Range(UpperAlphabet)

\* str.lower() on one character (the non-ASCII letters of the model included)
ToLower(ch) ==
  IF ch \in UpperChars
    THEN LowerAlphabet[CHOOSE i \in DOMAIN UpperAlphabet : UpperAlphabet[i] = ch]
    ELSE IF ch = "É" THEN "é" ELSE ch

\* the characters the class [a-z0-9] of the pattern accepts
TokenChars == LowerChars \cup Digits
TokenChar(ch) == ch \in TokenChars

\* the characters \w accepts (str patterns are Unicode patterns): letters and
\* digits of any script, and the underscore
WordChars == LowerChars \cup UpperChars \cup Digits \cup {"_", "é", "É"}
WordChar(ch) == ch \in WordChars

-----------------------------------------------------------------------------
(* Tokenizer *)

stop_words ==
  { <<"a">>, <<"a","n">>, <<"a","n","d">>, <<"a","r","e">>, <<"a","s">>,
    <<"a","t">>, <<"b","e">>, <<"b","y">>, <<"f","o","r">>, <<"f","r","o","m">>,
    <<"h","a","s">>, <<"h","e">>, <<"i","n">>, <<"i","s">>, <<"i","t">>,
    <<"i","t","s">>, <<"o","f">>, <<"o","n">>, <<"t","h","a","t">>, <<"t","h","e">>,
    <<"t","o">>, <<"w","a","s">>, <<"w","i","l","l">>, <<"w","i","t","h">>,
    <<"t","h","i","s">>, <<"b","u","t">>, <<"t","h","e","y">>, <<"h","a","v","e">>,
    <<"h","a","d">>, <<"w","h","a","t">>, <<"w","h","e","n">>,
    <<"w","h","e","r","e">>, <<"w","h","o">>, <<"w","h","i","c","h">>,
    <<"w","h","y">>, <<"h","o","w">> }

\* \b at the gap before character p of s (p in 1..Len(s)+1): exactly one of
\* the two neighbours is a word character
Boundary(s, p) ==
  LET before == p > 1 /\ WordChar(s[p - 1])
      after  == p <= Len(s) /\ WordChar(s[p])
  IN  before # after

\* re.match of \b[a-z0-9]+\b at p: the index after the match, or 0.  The
\* greedy + gives back characters until the trailing \b holds.
MatchEnd(s, p) ==
  IF ~Boundary(s, p) THEN 0
  ELSE LET ends == { e \in (p + 1)..(Len(s) + 1) :
                       /\ \A i \in p..(e - 1) : TokenChar(s[i])
                       /\ Boundary(s, e) }
       IN  IF ends = {} THEN 0
           ELSE CHOOSE e \in ends : \A f \in ends : f <= e

\* re.findall from position p on: non-overlapping matches, left to right
RECURSIVE FindAll(_, _)
FindAll(s, p) ==
  IF p > Len(s) THEN << >>
  ELSE LET e == MatchEnd(s, p)
       IN  IF e = 0 THEN FindAll(s, p + 1)
           ELSE <<SubSeq(s, p, e - 1)>> \o FindAll(s, e)

\* the filter of preprocess without the stop word list
NotStopWord_unfiltered(token) == TRUE

NotStopWord(token) == token \notin stop_words

\* preprocess without the stop word filter
preprocess_unfiltered(text) ==
  FindAll([i \in DOMAIN text |-> ToLower(text[i])], 1)

preprocess(text) ==
  LET lowered == [i \in DOMAIN text |-> ToLower(text[i])]
      tokens  == FindAll(lowered, 1)
  IN  SelectSeq(tokens, NotStopWord)

-----------------------------------------------------------------------------
(* Dictionaries *)

EmptyDict == << >>

\* d.get(k, default)
DictGet(d, k, default) == IF k \in DOMAIN d THEN d[k] ELSE default

\* d[k] = v
DictSet(d, k, v) == [x \in DOMAIN d \cup {k} |-> IF x = k THEN v ELSE d[x]]

\* self.index[term] on the defaultdict of __init__: a missing term is
\* inserted with an empty inner dict before it is returned
IndexGetItem(idx, term) ==
  IF term \in DOMAIN idx
    THEN [index |-> idx, val |-> idx[term]]
    ELSE [index |-> DictSet(idx, term, EmptyDict), val |-> EmptyDict]

\* IndexGet written as self.index[term]
IndexGet_subscript(idx, term) == IndexGetItem(idx, term)

\* self.index.get(term, {}): a read that leaves the index as it is.  The
\* result carries the index after the access next to the value read.
IndexGet(idx, term) ==
  [index |-> idx, val |-> DictGet(idx, term, EmptyDict)]

\* AppendPosition written as self.index[token] = {doc_id: [..., position]},
\* which drops the postings of the other documents under the token
AppendPosition_overwriting(idx, token, doc_id, position) ==
  LET old == DictGet(DictGet(idx, token, EmptyDict), doc_id, << >>)
  IN  DictSet(idx, token, DictSet(EmptyDict, doc_id, Append(old, position)))

\* self.index[token][doc_id].append(position): both defaultdict levels
\* create what is missing
AppendPosition(idx, token, doc_id, position) ==
  LET outer    == IndexGetItem(idx, token)
      postings == outer.val
      old      == DictGet(postings, doc_id, << >>)
  IN  DictSet(outer.index, token, DictSet(postings, doc_id, Append(old, position)))

-----------------------------------------------------------------------------
(* Index store *)

\* the loop of add_document that leaves out the last token
RECURSIVE AddPostings_short(_, _, _, _)
AddPostings_short(idx, doc_id, tokens, i) ==
  IF i >= Len(tokens) THEN idx
  ELSE AddPostings_short(AppendPosition(idx, tokens[i], doc_id, i - 1), doc_id, tokens, i + 1)

\* the loop of add_document from the i-th token on; positions are 0-based
RECURSIVE AddPostings(_, _, _, _)
AddPostings(idx, doc_id, tokens, i) ==
  IF i > Len(tokens) THEN idx
  ELSE AddPostings(AppendPosition(idx, tokens[i], doc_id, i - 1), doc_id, tokens, i + 1)

\* add_document that stores the content only when it has a token
add_document_unrecorded(self, doc_id, content) ==
  LET tokens == preprocess(content)
  IN  [ index       |-> AddPostings(self.index, doc_id, tokens, 1),
        documents   |-> IF tokens = << >> THEN self.documents
                        ELSE DictSet(self.documents, doc_id, content),
        doc_lengths |-> DictSet(self.doc_lengths, doc_id, Len(tokens)) ]

\* add_document that first deletes the terms of the content from the index,
\* with the postings of every document under them
add_document_clearing(self, doc_id, content) ==
  LET tokens  == preprocess(content)
      cleared == [t \in DOMAIN self.index \ Range(tokens) |-> self.index[t]]
  IN  [ index       |-> AddPostings(cleared, doc_id, tokens, 1),
        documents   |-> DictSet(self.documents, doc_id, content),
        doc_lengths |-> DictSet(self.doc_lengths, doc_id, Len(tokens)) ]

\* add_document on the store self = [index, documents, doc_lengths]
add_document(self, doc_id, content) ==
  LET tokens == preprocess(content)
  IN  [ index       |-> AddPostings(self.index, doc_id, tokens, 1),
        documents   |-> DictSet(self.documents, doc_id, content),
        doc_lengths |-> DictSet(self.doc_lengths, doc_id, Len(tokens)) ]

\* build_from_documents: docs is the dict in its iteration order, a sequence
\* of <<doc_id, content>> pairs with distinct ids
RECURSIVE build_from_documents(_, _)
build_from_documents(self, docs) ==
  IF docs = << >> THEN self
  ELSE build_from_documents(add_document(self, Head(docs)[1], Head(docs)[2]), Tail(docs))

-----------------------------------------------------------------------------
(* Query engine.  Every query returns [index |-> the index after the call, *)
(* ret |-> the value returned]; documents and doc_lengths are not assigned *)
(* by any query.                                                           *)

\* search that looks the input string up as it is
search_unnormalized(idx, term) ==
  [index |-> idx, ret |-> DictGet(idx, term, EmptyDict)]

search(idx, term) ==
  LET processed_terms == preprocess(term)
  IN  IF processed_terms = << >> THEN [index |-> idx, ret |-> EmptyDict]
      ELSE LET g == IndexGet(idx, processed_terms[1])
           IN  [index |-> g.index, ret |-> g.val]

\* Flatten that stops after the first input string
Flatten_first_string(terms) ==
  IF terms = << >> THEN << >> ELSE preprocess(Head(terms))

\* processed_terms of search_and: the tokens of all terms, flattened
RECURSIVE Flatten(_)
Flatten(terms) ==
  IF terms = << >> THEN << >>
  ELSE preprocess(Head(terms)) \o Flatten(Tail(terms))

\* IntersectFrom with the loop over processed_terms[1:] never entered
IntersectFrom_skipped(idx, tokens, i, result) == [index |-> idx, ret |-> result]

\* result &= set(self.index.get(term, {}).keys()) for the tokens from i on
RECURSIVE IntersectFrom(_, _, _, _)
IntersectFrom(idx, tokens, i, result) ==
  IF i > Len(tokens) THEN [index |-> idx, ret |-> result]
  ELSE LET g == IndexGet(idx, tokens[i])
       IN  IntersectFrom(g.index, tokens, i + 1, result \cap DOMAIN g.val)

search_and(idx, terms) ==
  IF terms = << >> THEN [index |-> idx, ret |-> {}]
  ELSE LET processed_terms == Flatten(terms)
       IN  IF processed_terms = << >> THEN [index |-> idx, ret |-> {}]
           ELSE LET g == IndexGet(idx, processed_terms[1])
                IN  IntersectFrom(g.index, processed_terms, 2, DOMAIN g.val)

\* result |= set(self.index.get(token, {}).keys()) for the tokens from i on
RECURSIVE UnionFrom(_, _, _, _)
UnionFrom(idx, tokens, i, result) ==
  IF i > Len(tokens) THEN [index |-> idx, ret |-> result]
  ELSE LET g == IndexGet(idx, tokens[i])
       IN  UnionFrom(g.index, tokens, i + 1, result \cup DOMAIN g.val)

\* search_or with the body of search_and (&= where |= is meant)
search_or_intersecting(idx, terms) == search_and(idx, terms)

\* the nested loops of search_or visit the tokens in flattened order
search_or(idx, terms) == UnionFrom(idx, Flatten(terms), 1, {})

\* search_not that takes "all documents" from the postings, not from documents
search_not_posted(idx, docs, include_terms, exclude_terms) ==
  LET inc == IF include_terms # << >>
               THEN search_and(idx, include_terms)
               ELSE [index |-> idx, ret |-> UNION {DOMAIN idx[t] : t \in DOMAIN idx}]
      exc == search_or(inc.index, exclude_terms)
  IN  [index |-> exc.index, ret |-> inc.ret \ exc.ret]

\* search_not that tests the tokens of include_terms, not the list itself
search_not_tokens(idx, docs, include_terms, exclude_terms) ==
  LET inc == IF Flatten(include_terms) # << >>
               THEN search_and(idx, include_terms)
               ELSE [index |-> idx, ret |-> DOMAIN docs]
      exc == search_or(inc.index, exclude_terms)
  IN  [index |-> exc.index, ret |-> inc.ret \ exc.ret]

search_not(idx, docs, include_terms, exclude_terms) ==
  LET inc == IF include_terms # << >>
               THEN search_and(idx, include_terms)
               ELSE [index |-> idx, ret |-> DOMAIN docs]
      exc == search_or(inc.index, exclude_terms)
  IN  [index |-> exc.index, ret |-> inc.ret \ exc.ret]

\* MatchAt that asks for the tokens in the document, at any position
RECURSIVE MatchAt_unpositioned(_, _, _, _, _)
MatchAt_unpositioned(idx, doc_id, tokens, start_pos, i) ==
  IF i > Len(tokens) - 1 THEN [index |-> idx, match |-> TRUE]
  ELSE LET g == IndexGetItem(idx, tokens[i + 1])
       IN  IF doc_id \notin DOMAIN g.val
             THEN [index |-> g.index, match |-> FALSE]
             ELSE MatchAt_unpositioned(g.index, doc_id, tokens, start_pos, i + 1)

\* the innermost loop of search_phrase for one start position: token i+1 of
\* the phrase (offset i) must be at start_pos + i
RECURSIVE MatchAt(_, _, _, _, _)
MatchAt(idx, doc_id, tokens, start_pos, i) ==
  IF i > Len(tokens) - 1 THEN [index |-> idx, match |-> TRUE]
  ELSE LET g == IndexGetItem(idx, tokens[i + 1])
       IN  IF \/ doc_id \notin DOMAIN g.val
              \/ (start_pos + i) \notin Range(g.val[doc_id])
             THEN [index |-> g.index, match |-> FALSE]
             ELSE MatchAt(g.index, doc_id, tokens, start_pos, i + 1)

\* the loop over the positions of the first term, left at the first match
RECURSIVE ScanPositions(_, _, _, _, _)
ScanPositions(idx, doc_id, tokens, positions, k) ==
  IF k > Len(positions) THEN [index |-> idx, match |-> FALSE]
  ELSE LET m == MatchAt(idx, doc_id, tokens, positions[k], 1)
       IN  IF m.match THEN m
           ELSE ScanPositions(m.index, doc_id, tokens, positions, k + 1)

\* the loop over candidate_docs
RECURSIVE ScanDocs(_, _, _, _)
ScanDocs(idx, candidate_docs, tokens, result) ==
  IF candidate_docs = {} THEN [index |-> idx, ret |-> result]
  ELSE LET doc_id == CHOOSE d \in candidate_docs : TRUE
           first  == IndexGetItem(idx, tokens[1])
           m      == ScanPositions(first.index, doc_id, tokens, first.val[doc_id], 1)
       IN  ScanDocs(m.index, candidate_docs \ {doc_id}, tokens,
                    IF m.match THEN result \cup {doc_id} ELSE result)

\* search_phrase that returns the candidates of the first token unverified
search_phrase_unverified(idx, phrase) ==
  LET tokens == preprocess(phrase)
  IN  IF tokens = << >> THEN [index |-> idx, ret |-> {}]
      ELSE LET g == IndexGet(idx, tokens[1])
           IN  [index |-> g.index, ret |-> DOMAIN g.val]

search_phrase(idx, phrase) ==
  LET tokens == preprocess(phrase)
  IN  IF tokens = << >> THEN [index |-> idx, ret |-> {}]
      ELSE LET g == IndexGet(idx, tokens[1])
           IN  IF Len(tokens) = 1 THEN [index |-> g.index, ret |-> DOMAIN g.val]
               ELSE ScanDocs(g.index, DOMAIN g.val, tokens, {})

\* get_term_frequency that counts the distinct positions of the posting
get_term_frequency_distinct(idx, term, doc_id) ==
  LET processed_terms == preprocess(term)
  IN  IF processed_terms = << >> THEN [index |-> idx, ret |-> 0]
      ELSE LET g == IndexGet(idx, processed_terms[1])
           IN  [index |-> g.index,
                ret |-> Cardinality(Range(DictGet(g.val, doc_id, << >>)))]

get_term_frequency(idx, term, doc_id) ==
  LET processed_terms == preprocess(term)
  IN  IF processed_terms = << >> THEN [index |-> idx, ret |-> 0]
      ELSE LET g == IndexGet(idx, processed_terms[1])
           IN  [index |-> g.index, ret |-> Len(DictGet(g.val, doc_id, << >>))]

get_document_frequency(idx, term) ==
  LET processed_terms == preprocess(term)
  IN  IF processed_terms = << >> THEN [index |-> idx, ret |-> 0]
      ELSE LET g == IndexGet(idx, processed_terms[1])
           IN  [index |-> g.index, ret |-> Cardinality(DOMAIN g.val)]

-----------------------------------------------------------------------------
(* Persistence codec *)

\* the file system: no file, or the one file with the data written to it
NoFile == << >>

\* a JSON value of the record written to the file carries its shape: an
\* object (a dict) or an array (a list); the array of the model is []
JsonObject(d) == <<"object", d>>
JsonArray == <<"array", << >> >>
IsObject(v) == v[1] = "object"

\* the keys of data
TopLevelKeys == {"index", "documents", "doc_lengths"}

\* the data dict of save_to_file as json.dump writes it: every term with its
\* postings (empty postings included), documents and doc_lengths
save_to_file(self) ==
  [ index       |-> JsonObject([term \in DOMAIN self.index |-> self.index[term]]),
    documents   |-> JsonObject(self.documents),
    doc_lengths |-> JsonObject(self.doc_lengths) ]

\* the loops of load_from_file written as self.index[term] = {doc_id:
\* positions}, so that only one posting of every term is kept
LoadIndex_overwriting(postings_of) ==
  [term \in {t \in DOMAIN postings_of : DOMAIN postings_of[t] # {}}
     |-> LET last == CHOOSE d \in DOMAIN postings_of[term] : TRUE
         IN  [doc_id \in {last} |-> postings_of[term][doc_id]]]

\* the nested loops of load_from_file over data['index']: a term is created
\* by the assignment of its first posting, so a term whose postings are
\* empty is not created
LoadIndex(postings_of) ==
  [term \in {t \in DOMAIN postings_of : DOMAIN postings_of[t] # {}}
     |-> [doc_id \in DOMAIN postings_of[term] |-> postings_of[term][doc_id]]]

\* no exception: the call returns
NoException == ""

\* load_from_file that reads the record with data.get(key, {})
load_from_file_defaulting(self, data) ==
  LET get(key) == IF key \in DOMAIN data THEN data[key][2] ELSE EmptyDict
  IN  [ index       |-> LoadIndex(get("index")),
        documents   |-> get("documents"),
        doc_lengths |-> get("doc_lengths"),
        raised      |-> NoException ]

\* load_from_file on the store self with the record data read from the file:
\* the store it leaves and the exception it ends in.  self.index is replaced
\* by a fresh defaultdict before data['index'] is read; data[key] of a
\* missing key raises KeyError, .items() of an array raises AttributeError,
\* and what was assigned before stays assigned.  documents and doc_lengths
\* are assigned whatever value the record has.
load_from_file(self, data) ==
  LET failed(idx, docs, exception) ==
        [ index |-> idx, documents |-> docs, doc_lengths |-> self.doc_lengths,
          raised |-> exception ]
  IN  IF "index" \notin DOMAIN data
        THEN failed(EmptyDict, self.documents, "KeyError")
      ELSE IF ~IsObject(data.index)
        THEN failed(EmptyDict, self.documents, "AttributeError")
      ELSE LET loaded == LoadIndex(data.index[2])
           IN  IF "documents" \notin DOMAIN data
                 THEN failed(loaded, self.documents, "KeyError")
               ELSE IF "doc_lengths" \notin DOMAIN data
                 THEN failed(loaded, data.documents[2], "KeyError")
               ELSE [ index       |-> loaded,
                      documents   |-> data.documents[2],
                      doc_lengths |-> data.doc_lengths[2],
                      raised      |-> NoException ]

-----------------------------------------------------------------------------
(* Inputs of the calls *)

DocIds == {"doc1", "doc2"}

\* document contents: "x", "x y", "is Y." (a stop word, an upper-case letter,
\* punctuation) and "is" (no token at all)
Contents ==
  { <<"x">>, <<"x"," ","y">>, <<"i","s"," ","Y",".">>, <<"i","s">> }

\* query strings: "x", "y", "x y" and the stop word "is"
QueryTexts ==
  { <<"x">>, <<"y">>, <<"x"," ","y">>, <<"i","s">> }

SeqsUpTo(S, n) == UNION { [1..k -> S] : k \in 0..n }

TermLists == SeqsUpTo(QueryTexts, MaxTerms)

\* the argument pairs of search_not
NotArgs ==
  { args \in TermLists \X TermLists : Len(args[1]) + Len(args[2]) <= MaxTerms }

\* the dicts handed to build_from_documents, in iteration order
DocDicts ==
  { docs \in SeqsUpTo(DocIds \X Contents, Cardinality(DocIds)) :
      \A i, j \in DOMAIN docs : i # j => docs[i][1] # docs[j][1] }

-----------------------------------------------------------------------------
(* State machine *)

\* no add_document call is in progress
NoWriter == [pc |-> "idle", doc_id |-> "", content |-> << >>, position |-> 0]

\* an argument the call does not take: the empty text or list, the empty id
NoArg == << >>
NoId == ""

\* what a call hands back: None, a value with its Python type, or an exception
NoneValue == <<"None">>
Returned(type, value) == <<type, value>>
Raised(exception) == <<"raise", exception>>

Call(op, doc_id, text, terms, exclude) ==
  [op |-> op, doc_id |-> doc_id, text |-> text, terms |-> terms, exclude |-> exclude]

\* the caller is between two calls
Idle == Call("idle", NoId, NoArg, NoArg, NoArg)

Self == [index |-> index, documents |-> documents, doc_lengths |-> doc_lengths]

\* the store of a fresh InvertedIndex()
EmptyStore == [index |-> EmptyDict, documents |-> EmptyDict, doc_lengths |-> EmptyDict]

\* InvertedIndex.__init__, and no file written yet
Init ==
  /\ index = EmptyDict
  /\ documents = EmptyDict
  /\ doc_lengths = EmptyDict
  /\ file = NoFile
  /\ call = Idle
  /\ ret = NoneValue
  /\ nAdds = 0
  /\ nSaves = 0
  /\ writer = NoWriter

SetStore(s) ==
  /\ index' = s.index
  /\ documents' = s.documents
  /\ doc_lengths' = s.doc_lengths

\* a query: the index is what the query left, the value is returned
Query(r, type) ==
  /\ index' = r.index
  /\ ret' = Returned(type, r.ret)

AddDocument ==
  /\ call = Idle
  /\ \E doc_id \in DocIds, content \in Contents :
      /\ nAdds < MaxAdds
      /\ SetStore(add_document(Self, doc_id, content))
      /\ call' = Call("add_document", doc_id, content, NoArg, NoArg)
      /\ ret' = NoneValue
      /\ nAdds' = nAdds + 1
      /\ UNCHANGED <<file, nSaves>>
  /\ UNCHANGED writer

BuildFromDocuments ==
  /\ call = Idle
  /\ \E docs \in DocDicts :
      /\ nAdds + Len(docs) <= MaxAdds
      /\ SetStore(build_from_documents(Self, docs))
      /\ call' = Call("build_from_documents", NoId, NoArg, docs, NoArg)
      /\ ret' = NoneValue
      /\ nAdds' = nAdds + Len(docs)
      /\ UNCHANGED <<file, nSaves>>
  /\ UNCHANGED writer

Search ==
  /\ call = Idle
  /\ \E term \in QueryTexts :
      /\ Query(search(index, term), "dict")
      /\ call' = Call("search", NoId, term, NoArg, NoArg)
  /\ UNCHANGED <<documents, doc_lengths, file, nAdds, nSaves>>
  /\ UNCHANGED writer

SearchAnd ==
  /\ call = Idle
  /\ \E terms \in TermLists :
      /\ Query(search_and(index, terms), "set")
      /\ call' = Call("search_and", NoId, NoArg, terms, NoArg)
  /\ UNCHANGED <<documents, doc_lengths, file, nAdds, nSaves>>
  /\ UNCHANGED writer

SearchOr ==
  /\ call = Idle
  /\ \E terms \in TermLists :
      /\ Query(search_or(index, terms), "set")
      /\ call' = Call("search_or", NoId, NoArg, terms, NoArg)
  /\ UNCHANGED <<documents, doc_lengths, file, nAdds, nSaves>>
  /\ UNCHANGED writer

SearchNot ==
  /\ call = Idle
  /\ \E args \in NotArgs :
      /\ Query(search_not(index, documents, args[1], args[2]), "set")
      /\ call' = Call("search_not", NoId, NoArg, args[1], args[2])
  /\ UNCHANGED <<documents, doc_lengths, file, nAdds, nSaves>>
  /\ UNCHANGED writer

SearchPhrase ==
  /\ call = Idle
  /\ \E phrase \in QueryTexts :
      /\ Query(search_phrase(index, phrase), "set")
      /\ call' = Call("search_phrase", NoId, phrase, NoArg, NoArg)
  /\ UNCHANGED <<documents, doc_lengths, file, nAdds, nSaves>>
  /\ UNCHANGED writer

GetTermFrequency ==
  /\ call = Idle
  /\ \E term \in QueryTexts, doc_id \in DocIds :
      /\ Query(get_term_frequency(index, term, doc_id), "int")
      /\ call' = Call("get_term_frequency", doc_id, term, NoArg, NoArg)
  /\ UNCHANGED <<documents, doc_lengths, file, nAdds, nSaves>>
  /\ UNCHANGED writer

GetDocumentFrequency ==
  /\ call = Idle
  /\ \E term \in QueryTexts :
      /\ Query(get_document_frequency(index, term), "int")
      /\ call' = Call("get_document_frequency", NoId, term, NoArg, NoArg)
  /\ UNCHANGED <<documents, doc_lengths, file, nAdds, nSaves>>
  /\ UNCHANGED writer

SaveToFile ==
  /\ call = Idle
  /\ nSaves < MaxSaves
  /\ file' = <<save_to_file(Self)>>
  /\ call' = Call("save_to_file", NoId, NoArg, NoArg, NoArg)
  /\ ret' = NoneValue
  /\ nSaves' = nSaves + 1
  /\ UNCHANGED <<index, documents, doc_lengths, nAdds>>
  /\ UNCHANGED writer

\* load_from_file of the file this store saved; open() of a file that was
\* never written raises before anything is assigned
LoadFromFile ==
  /\ call = Idle
  /\ call' = Call("load_from_file", NoId, NoArg, NoArg, NoArg)
  /\ IF file = NoFile
       THEN /\ ret' = Raised("FileNotFoundError")
            /\ UNCHANGED <<index, documents, doc_lengths>>
       ELSE LET r == load_from_file(Self, file[1])
            IN  /\ ret' = IF r.raised = NoException THEN NoneValue ELSE Raised(r.raised)
                /\ SetStore(r)
  /\ UNCHANGED <<file, nAdds, nSaves>>
  /\ UNCHANGED writer

\* the caller has used the result and goes on to its next call
Continue ==
  /\ call # Idle
  /\ call' = Idle
  /\ ret' = NoneValue
  /\ UNCHANGED <<index, documents, doc_lengths, file, nAdds, nSaves>>
  /\ UNCHANGED writer

Next ==
  \/ AddDocument
  \/ BuildFromDocuments
  \/ Search
  \/ SearchAnd
  \/ SearchOr
  \/ SearchNot
  \/ SearchPhrase
  \/ GetTermFrequency
  \/ GetDocumentFrequency
  \/ SaveToFile
  \/ LoadFromFile
  \/ Continue

Spec == Init /\ [][Next]_vars

-----------------------------------------------------------------------------
(* Phrase queries on documents whose words repeat and change order *)

\* "inverted index enables fast search", the content of doc3 of the tests
InvertedIndexText ==
  <<"i","n","v","e","r","t","e","d"," ","i","n","d","e","x"," ","e","n","a",
    "b","l","e","s"," ","f","a","s","t"," ","s","e","a","r","c","h">>

\* document contents: "x y", "y x", "x x y", "x is y" (a stop word between
\* the two words) and the sentence of doc3
PhraseContents ==
  { <<"x"," ","y">>, <<"y"," ","x">>, <<"x"," ","x"," ","y">>,
    <<"x"," ","i","s"," ","y">>, InvertedIndexText }

\* phrases: "x y", "y x", "x x y", "x", "inverted index" and "index inverted"
Phrases ==
  { <<"x"," ","y">>, <<"y"," ","x">>, <<"x"," ","x"," ","y">>, <<"x">>,
    <<"i","n","v","e","r","t","e","d"," ","i","n","d","e","x">>,
    <<"i","n","d","e","x"," ","i","n","v","e","r","t","e","d">> }

AddPhraseDocument ==
  /\ call = Idle
  /\ \E doc_id \in DocIds, content \in PhraseContents :
      /\ nAdds < MaxAdds
      /\ SetStore(add_document(Self, doc_id, content))
      /\ call' = Call("add_document", doc_id, content, NoArg, NoArg)
      /\ ret' = NoneValue
      /\ nAdds' = nAdds + 1
      /\ UNCHANGED <<file, nSaves>>
  /\ UNCHANGED writer

SearchPhraseOrder ==
  /\ call = Idle
  /\ \E phrase \in Phrases :
      /\ Query(search_phrase(index, phrase), "set")
      /\ call' = Call("search_phrase", NoId, phrase, NoArg, NoArg)
  /\ UNCHANGED <<documents, doc_lengths, file, nAdds, nSaves>>
  /\ UNCHANGED writer

PhraseNext ==
  \/ AddPhraseDocument
  \/ SearchPhraseOrder
  \/ Continue

PhraseSpec == Init /\ [][PhraseNext]_vars

-----------------------------------------------------------------------------
(* The four documents of the tests and the queries made on them *)

\* self.test_docs in its iteration order
test_docs ==
  << <<"doc1",
      <<"I","n","f","o","r","m","a","t","i","o","n"," ","r","e","t","r","i",
        "e","v","a","l"," ","i","s"," ","i","m","p","o","r","t","a","n","t">> >>,
     <<"doc2",
      <<"S","e","a","r","c","h"," ","e","n","g","i","n","e","s"," ","u","s",
        "e"," ","i","n","v","e","r","t","e","d"," ","i","n","d","e","x">> >>,
     <<"doc3",
      <<"I","n","v","e","r","t","e","d"," ","i","n","d","e","x"," ","e","n",
        "a","b","l","e","s"," ","f","a","s","t"," ","s","e","a","r","c","h">> >>,
     <<"doc4",
      <<"D","a","t","a","b","a","s","e"," ","s","y","s","t","e","m","s"," ",
        "u","s","e"," ","i","n","d","e","x"," ","s","t","r","u","c","t","u",
        "r","e","s">> >> >>

TestDocIds == {test_docs[i][1] : i \in DOMAIN test_docs}

\* the words of the queries
IndexWord == <<"i","n","d","e","x">>
InvertedWord == <<"i","n","v","e","r","t","e","d">>
DatabaseWord == <<"d","a","t","a","b","a","s","e">>
SearchWord == <<"s","e","a","r","c","h">>
IsWord == <<"i","s">>

\* the strings of the single-string queries: the words, "INDEX", "Index
\* inverted", "inverted index", "information", "nonexistent" and ""
TestTexts ==
  { IndexWord, InvertedWord, DatabaseWord, SearchWord, IsWord,
    <<"I","N","D","E","X">>,
    <<"I","n","d","e","x"," ","i","n","v","e","r","t","e","d">>,
    <<"i","n","v","e","r","t","e","d"," ","i","n","d","e","x">>,
    <<"i","n","f","o","r","m","a","t","i","o","n">>,
    <<"n","o","n","e","x","i","s","t","e","n","t">>,
    << >> }

\* the term lists of the list queries
TestTermLists ==
  { << >>, <<InvertedWord, IndexWord>>, <<SearchWord, DatabaseWord>>,
    <<IndexWord>>, <<DatabaseWord>> }

\* setUp: a fresh index, built from test_docs
SetUp ==
  /\ call = Idle
  /\ SetStore(build_from_documents(EmptyStore, test_docs))
  /\ call' = Call("build_from_documents", NoId, NoArg, test_docs, NoArg)
  /\ ret' = NoneValue
  /\ nAdds' = Len(test_docs)
  /\ UNCHANGED <<file, nSaves>>
  /\ UNCHANGED writer

TestSearch ==
  /\ call = Idle
  /\ \E term \in TestTexts :
      /\ Query(search(index, term), "dict")
      /\ call' = Call("search", NoId, term, NoArg, NoArg)
  /\ UNCHANGED <<documents, doc_lengths, file, nAdds, nSaves>>
  /\ UNCHANGED writer

TestSearchAnd ==
  /\ call = Idle
  /\ \E terms \in TestTermLists :
      /\ Query(search_and(index, terms), "set")
      /\ call' = Call("search_and", NoId, NoArg, terms, NoArg)
  /\ UNCHANGED <<documents, doc_lengths, file, nAdds, nSaves>>
  /\ UNCHANGED writer

TestSearchOr ==
  /\ call = Idle
  /\ \E terms \in TestTermLists :
      /\ Query(search_or(index, terms), "set")
      /\ call' = Call("search_or", NoId, NoArg, terms, NoArg)
  /\ UNCHANGED <<documents, doc_lengths, file, nAdds, nSaves>>
  /\ UNCHANGED writer

TestSearchNot ==
  /\ call = Idle
  /\ \E include_terms \in TestTermLists, exclude_terms \in TestTermLists :
      /\ Query(search_not(index, documents, include_terms, exclude_terms), "set")
      /\ call' = Call("search_not", NoId, NoArg, include_terms, exclude_terms)
  /\ UNCHANGED <<documents, doc_lengths, file, nAdds, nSaves>>
  /\ UNCHANGED writer

TestSearchPhrase ==
  /\ call = Idle
  /\ \E phrase \in TestTexts :
      /\ Query(search_phrase(index, phrase), "set")
      /\ call' = Call("search_phrase", NoId, phrase, NoArg, NoArg)
  /\ UNCHANGED <<documents, doc_lengths, file, nAdds, nSaves>>
  /\ UNCHANGED writer

TestGetTermFrequency ==
  /\ call = Idle
  /\ \E term \in TestTexts, doc_id \in TestDocIds :
      /\ Query(get_term_frequency(index, term, doc_id), "int")
      /\ call' = Call("get_term_frequency", doc_id, term, NoArg, NoArg)
  /\ UNCHANGED <<documents, doc_lengths, file, nAdds, nSaves>>
  /\ UNCHANGED writer

TestGetDocumentFrequency ==
  /\ call = Idle
  /\ \E term \in TestTexts :
      /\ Query(get_document_frequency(index, term), "int")
      /\ call' = Call("get_document_frequency", NoId, term, NoArg, NoArg)
  /\ UNCHANGED <<documents, doc_lengths, file, nAdds, nSaves>>
  /\ UNCHANGED writer

TestNext ==
  \/ SetUp
  \/ TestSearch
  \/ TestSearchAnd
  \/ TestSearchOr
  \/ TestSearchNot
  \/ TestSearchPhrase
  \/ TestGetTermFrequency
  \/ TestGetDocumentFrequency
  \/ Continue

TestSpec == Init /\ [][TestNext]_vars

-----------------------------------------------------------------------------
(* Loading a file that another program has written or changed *)

\* data without one of its keys
DropKey(data, key) == [k \in DOMAIN data \ {key} |-> data[k]]

\* the file that open() finds is not what save_to_file wrote: one top-level
\* key is gone, or one top-level value is an array
EditFile ==
  /\ call = Idle
  /\ file # NoFile
  /\ \E key \in DOMAIN file[1] :
       \/ file' = <<DropKey(file[1], key)>>
       \/ /\ IsObject(file[1][key])
          /\ file' = <<[file[1] EXCEPT ![key] = JsonArray]>>
  /\ UNCHANGED <<index, documents, doc_lengths, call, ret, nAdds, nSaves>>
  /\ UNCHANGED writer

LoadNext ==
  \/ AddDocument
  \/ SaveToFile
  \/ EditFile
  \/ LoadFromFile
  \/ Continue

LoadSpec == Init /\ [][LoadNext]_vars

-----------------------------------------------------------------------------
(* The tokenizer on its own *)

\* the characters of the texts: the stop word "a", a letter, an upper-case
\* letter, a blank, the underscore and a non-ASCII letter
TextAlphabet == {"a", "n", "X", " ", "_", "é"}

\* "The Quick BROWN fox" of the tests
QuickBrownFox ==
  <<"T","h","e"," ","Q","u","i","c","k"," ","B","R","O","W","N"," ","f","o","x">>

Texts == SeqsUpTo(TextAlphabet, MaxTextLen) \cup {QuickBrownFox}

\* a fresh index and the text that preprocess is about to be called with
PreprocessInit ==
  /\ index = EmptyDict
  /\ documents = EmptyDict
  /\ doc_lengths = EmptyDict
  /\ file = NoFile
  /\ call \in {Call("input", NoId, text, NoArg, NoArg) : text \in Texts}
  /\ ret = NoneValue
  /\ nAdds = 0
  /\ nSaves = 0
  /\ writer = NoWriter

Preprocess ==
  /\ call.op = "input"
  /\ call' = Call("preprocess", NoId, call.text, NoArg, NoArg)
  /\ ret' = Returned("list", preprocess(call.text))
  /\ UNCHANGED <<index, documents, doc_lengths, file, nAdds, nSaves>>
  /\ UNCHANGED writer

PreprocessNext == Preprocess

PreprocessSpec == PreprocessInit /\ [][PreprocessNext]_vars

-----------------------------------------------------------------------------
(* add_document statement by statement, with the queries of a second caller *)
(* of the same InvertedIndex between its statements.  The class takes no   *)
(* lock, so nothing orders the statements of the two callers.              *)

\* add_document(doc_id, content) is entered
BeginAddDocument ==
  /\ writer = NoWriter
  /\ nAdds < MaxAdds
  /\ \E doc_id \in DocIds, content \in Contents :
       writer' = [pc |-> "documents", doc_id |-> doc_id, content |-> content,
                  position |-> 0]
  /\ nAdds' = nAdds + 1
  /\ UNCHANGED <<index, documents, doc_lengths, file, call, ret, nSaves>>

\* self.documents[doc_id] = content
StoreContent ==
  /\ writer.pc = "documents"
  /\ documents' = DictSet(documents, writer.doc_id, writer.content)
  /\ writer' = [writer EXCEPT !.pc = "doc_lengths"]
  /\ UNCHANGED <<index, doc_lengths, file, call, ret, nAdds, nSaves>>

\* tokens = self.preprocess(content); self.doc_lengths[doc_id] = len(tokens)
StoreLength ==
  /\ writer.pc = "doc_lengths"
  /\ doc_lengths' = DictSet(doc_lengths, writer.doc_id, Len(preprocess(writer.content)))
  /\ writer' = [writer EXCEPT !.pc = "index"]
  /\ UNCHANGED <<index, documents, file, call, ret, nAdds, nSaves>>

\* one pass of the loop: self.index[token][doc_id].append(position)
AppendNextPosition ==
  /\ writer.pc = "index"
  /\ LET tokens == preprocess(writer.content)
     IN  /\ writer.position < Len(tokens)
         /\ index' = AppendPosition(index, tokens[writer.position + 1],
                                    writer.doc_id, writer.position)
  /\ writer' = [writer EXCEPT !.position = writer.position + 1]
  /\ UNCHANGED <<documents, doc_lengths, file, call, ret, nAdds, nSaves>>

\* the loop is over and add_document returns
EndAddDocument ==
  /\ writer.pc = "index"
  /\ writer.position = Len(preprocess(writer.content))
  /\ writer' = NoWriter
  /\ UNCHANGED <<index, documents, doc_lengths, file, call, ret, nAdds, nSaves>>

\* search_not of the second caller, with an empty include list
SearchNotDuringAdd ==
  /\ call = Idle
  /\ \E exclude_terms \in SeqsUpTo(QueryTexts, 1) :
      /\ Query(search_not(index, documents, << >>, exclude_terms), "set")
      /\ call' = Call("search_not", NoId, NoArg, << >>, exclude_terms)
  /\ UNCHANGED <<documents, doc_lengths, file, nAdds, nSaves, writer>>

ConcurrentNext ==
  \/ BeginAddDocument
  \/ StoreContent
  \/ StoreLength
  \/ AppendNextPosition
  \/ EndAddDocument
  \/ SearchNotDuringAdd
  \/ GetTermFrequency
  \/ Continue

ConcurrentSpec == Init /\ [][ConcurrentNext]_vars

-----------------------------------------------------------------------------
(* Notions the properties are stated in *)

QueryOps ==
  { "search", "search_and", "search_or", "search_not",
    "get_term_frequency", "get_document_frequency" }

\* what the store holds for one document id: its positions under every term
\* that has a posting for it, its content and its length
OfDoc(self, doc_id) ==
  [ postings |-> [t \in {u \in DOMAIN self.index : doc_id \in DOMAIN self.index[u]}
                    |-> self.index[t][doc_id]],
    content  |-> DictGet(self.documents, doc_id, NoneValue),
    length   |-> DictGet(self.doc_lengths, doc_id, NoneValue) ]

\* what a store holds for doc_id when add_document(doc_id, content) is the
\* only call ever made on it
AddedOnce(doc_id, content) == OfDoc(add_document(EmptyStore, doc_id, content), doc_id)

\* the document-id set of search(t)
SearchDocs(idx, t) == DOMAIN search(idx, t).ret

AllDocIds(self) ==
  DOMAIN self.documents \cup UNION {DOMAIN self.index[t] : t \in DOMAIN self.index}

\* the intersection and the union of the document-id sets of search(ti)
SearchIntersection(self, terms) ==
  {d \in AllDocIds(self) : \A i \in DOMAIN terms : d \in SearchDocs(self.index, terms[i])}

SearchUnion(self, terms) ==
  UNION {SearchDocs(self.index, terms[i]) : i \in DOMAIN terms}

\* the results of every query of the model on the store self
QueryResults(self) ==
  [ search        |-> [t \in QueryTexts |-> search(self.index, t).ret],
    search_and    |-> [ts \in TermLists |-> search_and(self.index, ts).ret],
    search_or     |-> [ts \in TermLists |-> search_or(self.index, ts).ret],
    search_not    |-> [a \in NotArgs |->
                         search_not(self.index, self.documents, a[1], a[2]).ret],
    search_phrase |-> [t \in QueryTexts |-> search_phrase(self.index, t).ret],
    get_term_frequency |-> [a \in QueryTexts \X DocIds |->
                              get_term_frequency(self.index, a[1], a[2]).ret],
    get_document_frequency |-> [t \in QueryTexts |->
                                  get_document_frequency(self.index, t).ret] ]

\* the step is a load_from_file of exactly what save_to_file writes for the
\* store as it is now
RoundTrip ==
  /\ call'.op = "load_from_file"
  /\ file = <<save_to_file(Self)>>

-----------------------------------------------------------------------------
(* Properties *)

\* C1: re-adding an existing id with another content replaces what the store
\* holds for it: after the call the positions of the id under every term, its
\* content and its length are those of a store on which only this
\* add_document was performed.
C1_ReAddReplaces ==
  [][ ( /\ call'.op = "add_document"
        /\ call'.doc_id \in DOMAIN documents
        /\ documents[call'.doc_id] # call'.text )
      => OfDoc(Self', call'.doc_id) = AddedOnce(call'.doc_id, call'.text) ]_vars

\* C2: add_document is idempotent: when the store holds for an id exactly
\* what one add_document(id, content) leaves, a second add_document(id,
\* content) changes neither the index nor documents nor doc_lengths.
C2_AddIdempotent ==
  [][ ( /\ call'.op = "add_document"
        /\ call'.doc_id \in DOMAIN documents
        /\ OfDoc(Self, call'.doc_id) = AddedOnce(call'.doc_id, call'.text) )
      => Self' = Self ]_vars

\* C3: search_phrase is a pure read: index, documents and doc_lengths are
\* the same after the call as before it.
C3_PhraseIsPureRead ==
  [][ call'.op = "search_phrase" => Self' = Self ]_vars

\* C4: search, search_and, search_or, search_not, get_term_frequency and
\* get_document_frequency leave the term keys, every posting, documents and
\* doc_lengths unchanged.
C4_QueriesDoNotMutate ==
  [][ call'.op \in QueryOps => Self' = Self ]_vars

\* C4 witness: get_term_frequency has returned for a term that is not a key
\* of the non-empty index and a document id that was never added.
C4_Witness ==
  /\ call.op = "get_term_frequency"
  /\ index # EmptyDict
  /\ preprocess(call.text) # << >>
  /\ preprocess(call.text)[1] \notin DOMAIN index
  /\ call.doc_id \notin DOMAIN documents

\* C5: a store that loads what save_to_file wrote for it answers every
\* query as the saved store did.
C5_RoundTripKeepsResults ==
  [][ RoundTrip => QueryResults(Self') = QueryResults(Self) ]_vars

\* C5 witness: load_from_file has returned, the record it read holds a term
\* whose postings are empty next to a term with postings in two documents,
\* and the store is what the load makes of that record.
C5_Witness ==
  /\ call.op = "load_from_file"
  /\ file # NoFile
  /\ \E t \in DOMAIN file[1].index[2] : DOMAIN file[1].index[2][t] = {}
  /\ \E t \in DOMAIN file[1].index[2] : Cardinality(DOMAIN file[1].index[2][t]) = 2
  /\ ret = NoneValue
  /\ index = LoadIndex(file[1].index[2])

\* C6: save_to_file followed by load_from_file reconstructs index,
\* documents and doc_lengths verbatim.
C6_RoundTripVerbatim ==
  [][ RoundTrip => Self' = Self ]_vars

\* every string of the list normalizes to exactly one token, to at most one
\* token, to no token
AllOneToken(terms) == \A i \in DOMAIN terms : Len(preprocess(terms[i])) = 1
AllAtMostOneToken(terms) == \A i \in DOMAIN terms : Len(preprocess(terms[i])) <= 1
AllNoToken(terms) == \A i \in DOMAIN terms : preprocess(terms[i]) = << >>

SomeSearchEmpty(self, terms) ==
  \E i \in DOMAIN terms : SearchDocs(self.index, terms[i]) = {}

\* search_and of the list just returned is the intersection of the search(ti)
\* document sets, and empty when some search(ti) is empty
AndIsIntersection ==
  /\ ret = Returned("set", SearchIntersection(Self, call.terms))
  /\ SomeSearchEmpty(Self, call.terms) => ret = Returned("set", {})

\* C7 as stated: for every (non-empty) list of input strings search_and is
\* the intersection of the search(ti) document sets, and is empty whenever
\* some search(ti) is empty, a stop word or a multi-word string included.
C7_AndIsIntersectionOfSearches ==
  (call.op = "search_and" /\ call.terms # << >>) => AndIsIntersection

\* C7 amended: the same for every non-empty list in which every string
\* normalizes to exactly one token, or in which no string normalizes to any
\* token.
C7_AndIsIntersectionOneToken ==
  ( /\ call.op = "search_and"
    /\ call.terms # << >>
    /\ AllOneToken(call.terms) \/ AllNoToken(call.terms) )
  => AndIsIntersection

\* C7 witness: search_and has returned a non-empty proper subset of the
\* documents for two different one-token strings.
C7_Witness ==
  /\ call.op = "search_and"
  /\ Len(call.terms) = 2
  /\ AllOneToken(call.terms)
  /\ call.terms[1] # call.terms[2]
  /\ ret # Returned("set", {})
  /\ ret # Returned("set", DOMAIN documents)

\* C8 as stated: for every list of input strings search_or is the union of
\* the search(ti) document sets, a multi-word string included, and
\* search_or([]) is empty.
C8_OrIsUnionOfSearches ==
  call.op = "search_or" =>
    /\ ret = Returned("set", SearchUnion(Self, call.terms))
    /\ call.terms = << >> => ret = Returned("set", {})

\* C8 amended: the same for every list in which every string normalizes to
\* at most one token.
C8_OrIsUnionAtMostOneToken ==
  (call.op = "search_or" /\ AllAtMostOneToken(call.terms)) =>
    /\ ret = Returned("set", SearchUnion(Self, call.terms))
    /\ call.terms = << >> => ret = Returned("set", {})

\* C8 witness: search_or has returned two documents for two one-token
\* strings, each of which is in one of the documents only.
C8_Witness ==
  /\ call.op = "search_or"
  /\ Len(call.terms) = 2
  /\ AllOneToken(call.terms)
  /\ Cardinality(SearchDocs(index, call.terms[1])) = 1
  /\ Cardinality(SearchDocs(index, call.terms[2])) = 1
  /\ ret = Returned("set", DocIds)

\* C9 as stated: search_not(incl, []) is search_and(incl) for every include
\* list, the empty one included, and search_not([], excl) is the set of all
\* document ids minus search_or(excl).
C9_NotWithEmptyList ==
  call.op = "search_not" =>
    /\ call.exclude = << >> =>
         ret = Returned("set", search_and(index, call.terms).ret)
    /\ call.terms = << >> =>
         ret = Returned("set", DOMAIN documents \ search_or(index, call.exclude).ret)

\* C9 amended: search_not(incl, []) is search_and(incl) for every non-empty
\* include list, and search_not([], excl) is the set of all document ids
\* minus search_or(excl).
C9_NotWithEmptyListAmended ==
  call.op = "search_not" =>
    /\ (call.exclude = << >> /\ call.terms # << >>) =>
         ret = Returned("set", search_and(index, call.terms).ret)
    /\ call.terms = << >> =>
         ret = Returned("set", DOMAIN documents \ search_or(index, call.exclude).ret)

\* C9 witness: search_not([], excl) has returned a document that has no
\* posting at all, and has left out a document that excl matches.
C9_Witness ==
  /\ call.op = "search_not"
  /\ call.terms = << >>
  /\ call.exclude # << >>
  /\ \E d \in DOMAIN documents :
       /\ ret = Returned("set", {d})
       /\ \A t \in DOMAIN index : d \notin DOMAIN index[t]
  /\ Cardinality(DOMAIN documents) = 2

\* C10: search_not returns search_and(include) minus search_or(exclude) for
\* a non-empty include list and the keys of documents minus
\* search_or(exclude) for the empty one; a non-empty include list that
\* normalizes to no token yields the empty set.
C10_NotIsAndMinusOr ==
  call.op = "search_not" =>
    /\ ret = Returned("set",
               (IF call.terms # << >>
                  THEN search_and(index, call.terms).ret
                  ELSE DOMAIN documents)
               \ search_or(index, call.exclude).ret)
    /\ (call.terms # << >> /\ AllNoToken(call.terms)) => ret = Returned("set", {})

\* C10 witness: search_not has returned the empty set for an include list of
\* stop words only, on a store that holds documents none of which the
\* exclude list matches.
C10_Witness ==
  /\ call.op = "search_not"
  /\ call.terms # << >>
  /\ AllNoToken(call.terms)
  /\ documents # EmptyDict
  /\ search_or(index, call.exclude).ret = {}
  /\ ret = Returned("set", {})

\* the tokens that the strings of a term list normalize to
TokensOf(terms) == UNION {Range(preprocess(terms[i])) : i \in DOMAIN terms}

\* doc_id has a posting under token
HasPosting(idx, token, doc_id) ==
  token \in DOMAIN idx /\ doc_id \in DOMAIN idx[token]

\* C11: search_and returns exactly the documents that have a posting for
\* every token of every input string; an empty list, and a list whose
\* strings yield no token, return the empty set.
C11_AndOverAllTokens ==
  call.op = "search_and" =>
    ret = Returned("set",
            IF TokensOf(call.terms) = {} THEN {}
            ELSE {d \in AllDocIds(Self) :
                    \A token \in TokensOf(call.terms) : HasPosting(index, token, d)})

\* C11 witness: search_and of a two-string list with three tokens in all has
\* returned a document while another document lacks one of the tokens.
C11_Witness ==
  /\ call.op = "search_and"
  /\ Len(call.terms) = 2
  /\ Len(Flatten(call.terms)) = 3
  /\ Cardinality(DOMAIN documents) = 2
  /\ \E d \in DOMAIN documents : ret = Returned("set", {d})

\* C11 witness of the empty cases: search_and of a list of stop words only has
\* returned the empty set on a store that holds documents.
C11_WitnessNoToken ==
  /\ call.op = "search_and"
  /\ call.terms # << >>
  /\ TokensOf(call.terms) = {}
  /\ documents # EmptyDict
  /\ ret = Returned("set", {})

\* C14: the frequency functions agree with search: the document frequency of
\* a term is the number of document ids of search(term), and the term
\* frequency in a document is the number of positions of search(term) for
\* that id, 0 when the id is not in search(term), which covers an absent
\* term and an input without a token.
C14_FrequenciesAgreeWithSearch ==
  /\ call.op = "get_document_frequency" =>
        ret = Returned("int", Cardinality(DOMAIN search(index, call.text).ret))
  /\ call.op = "get_term_frequency" =>
        LET posting == search(index, call.text).ret
        IN  /\ ret = Returned("int", IF call.doc_id \in DOMAIN posting
                                       THEN Len(posting[call.doc_id]) ELSE 0)
            /\ ( \/ preprocess(call.text) = << >>
                 \/ preprocess(call.text)[1] \notin DOMAIN index
                 \/ call.doc_id \notin DOMAIN index[preprocess(call.text)[1]] )
                => ret = Returned("int", 0)

\* C14 witness: get_term_frequency has returned 2, the number of positions
\* that search holds for the term and the id after the id was added twice.
C14_Witness ==
  /\ call.op = "get_term_frequency"
  /\ ret = Returned("int", 2)
  /\ Len(search(index, call.text).ret[call.doc_id]) = 2

\* C18: build_from_documents does not depend on the order of the documents:
\* from the store it was called on, every order of the same id/content pairs
\* yields the index, documents and doc_lengths that the call has produced.
C18_BuildOrderIndependent ==
  [][ call'.op = "build_from_documents" =>
        \A docs \in DocDicts :
          Range(docs) = Range(call'.terms) =>
            build_from_documents(Self, docs) =
              [index |-> index', documents |-> documents', doc_lengths |-> doc_lengths']
    ]_vars

\* C18 witness: build_from_documents has added two documents that share a
\* term and differ in another.
C18_Witness ==
  /\ call.op = "build_from_documents"
  /\ Len(call.terms) = 2
  /\ \E t \in DOMAIN index : Cardinality(DOMAIN index[t]) = 2
  /\ \E t \in DOMAIN index : Cardinality(DOMAIN index[t]) = 1

\* C19: every token of the content of a document of the store finds the
\* document through search, in every state reached by later add_document
\* calls, queries, saves and loads.
C19_LookupComplete ==
  \A d \in DOMAIN documents :
    \A token \in Range(preprocess(documents[d])) :
      d \in DOMAIN search(index, token).ret

\* C19 witness: a query has returned on a store of two documents after the
\* second was added, and a token of the first document is not in the second.
C19_Witness ==
  /\ call.op \in QueryOps
  /\ Cardinality(DOMAIN documents) = 2
  /\ \E d, e \in DOMAIN documents :
       \E token \in Range(preprocess(documents[d])) :
         /\ d # e
         /\ token \notin Range(preprocess(documents[e]))
         /\ d \in DOMAIN search(index, token).ret

\* the seven query operations
AllQueryOps == QueryOps \cup {"search_phrase"}

\* no document has a posting under token
Unposted(token) == DictGet(index, token, EmptyDict) = EmptyDict

\* C15: no query ends in an error: each of the seven queries returns a value,
\* which is the empty mapping, the empty set or 0 on the empty store, for a
\* term or phrase with a token that no document has, and for an id that the
\* posting of the term does not hold.
C15_QueriesNeverRaise ==
  call.op \in AllQueryOps =>
    LET tokens == preprocess(call.text)
        listed == TokensOf(call.terms)
    IN  /\ ret[1] \in {"dict", "set", "int"}
        /\ (index = EmptyDict /\ documents = EmptyDict) =>
              ret \in {Returned("dict", EmptyDict), Returned("set", {}), Returned("int", 0)}
        /\ (call.op = "search" /\ (tokens = << >> \/ Unposted(tokens[1]))) =>
              ret = Returned("dict", EmptyDict)
        /\ (call.op = "search_and" /\ \E token \in listed : Unposted(token)) =>
              ret = Returned("set", {})
        /\ (call.op = "search_or" /\ \A token \in listed : Unposted(token)) =>
              ret = Returned("set", {})
        /\ (call.op = "search_not" /\ \E token \in listed : Unposted(token)) =>
              ret = Returned("set", {})
        /\ (call.op = "search_phrase"
              /\ (tokens = << >> \/ \E i \in DOMAIN tokens : Unposted(tokens[i]))) =>
              ret = Returned("set", {})
        /\ (call.op = "get_term_frequency"
              /\ (tokens = << >> \/ call.doc_id \notin DOMAIN DictGet(index, tokens[1], EmptyDict))) =>
              ret = Returned("int", 0)
        /\ (call.op = "get_document_frequency" /\ (tokens = << >> \/ Unposted(tokens[1]))) =>
              ret = Returned("int", 0)

\* C15 witness: search_phrase has returned the empty set for a phrase whose
\* first token is in a document and whose second token is in none.
C15_Witness ==
  /\ call.op = "search_phrase"
  /\ Len(preprocess(call.text)) = 2
  /\ ~Unposted(preprocess(call.text)[1])
  /\ Unposted(preprocess(call.text)[2])
  /\ ret = Returned("set", {})

\* tokens occur in seq at strictly consecutive positions, in their order
OccursIn(tokens, seq) ==
  \E start \in 1..Len(seq) :
    \A i \in 1..Len(tokens) :
      /\ start + i - 1 <= Len(seq)
      /\ seq[start + i - 1] = tokens[i]

\* the store holds for every id what one add_document call leaves for it
EveryIdAddedOnce ==
  \A d \in DOMAIN documents : OfDoc(Self, d) = AddedOnce(d, documents[d])

\* C12: on a store in which every id was added at most once, search_phrase of
\* a phrase of two or more tokens returns exactly the documents in whose
\* filtered token sequence the tokens of the phrase occur at consecutive
\* positions in the given order; so the document "inverted index enables
\* fast search" is returned for "inverted index" and not for "index
\* inverted".
C12_PhraseIsConsecutiveOccurrence ==
  ( /\ call.op = "search_phrase"
    /\ Len(preprocess(call.text)) >= 2
    /\ EveryIdAddedOnce )
  => /\ ret = Returned("set",
              {d \in DOMAIN documents :
                 OccursIn(preprocess(call.text), preprocess(documents[d]))})
     /\ \A d \in DOMAIN documents :
          documents[d] = InvertedIndexText =>
            /\ call.text = <<"i","n","v","e","r","t","e","d"," ","i","n","d","e","x">>
                 => d \in ret[2]
            /\ call.text = <<"i","n","d","e","x"," ","i","n","v","e","r","t","e","d">>
                 => d \notin ret[2]

\* C12 witness: on a store of two documents, each added once and each with
\* every token of the phrase, search_phrase has returned one of them only.
C12_Witness ==
  /\ call.op = "search_phrase"
  /\ Len(preprocess(call.text)) >= 2
  /\ EveryIdAddedOnce
  /\ Cardinality(DOMAIN documents) = 2
  /\ \A d \in DOMAIN documents :
       Range(preprocess(call.text)) \subseteq Range(preprocess(documents[d]))
  /\ \E d \in DOMAIN documents : ret = Returned("set", {d})

\* two strings that differ in the case of their letters at most
SameUpToCase(s, t) ==
  /\ Len(s) = Len(t)
  /\ \A i \in DOMAIN s :
       \/ s[i] = t[i]
       \/ \E k \in DOMAIN LowerAlphabet :
            {s[i], t[i]} = {LowerAlphabet[k], UpperAlphabet[k]}

\* C13: search returns the whole posting of the first token of the
\* normalized input and the empty mapping when there is no token or the
\* token is not indexed; strings with the same first token, and strings that
\* differ in letter case only, give equal results.
C13_SearchFirstTokenOnly ==
  call.op = "search" =>
    LET tokens == preprocess(call.text)
    IN  /\ ret = Returned("dict",
                   IF tokens = << >> THEN EmptyDict
                   ELSE DictGet(index, tokens[1], EmptyDict))
        /\ \A other \in TestTexts :
             ( \/ SameUpToCase(other, call.text)
               \/ /\ tokens # << >>
                  /\ preprocess(other) # << >>
                  /\ preprocess(other)[1] = tokens[1] )
             => search(index, other).ret = ret[2]

\* C13 witness: search of a string with an upper-case letter and a second
\* token has returned the posting of its first token, which three documents
\* have.
C13_Witness ==
  /\ call.op = "search"
  /\ Len(preprocess(call.text)) = 2
  /\ \E i \in DOMAIN call.text : call.text[i] \in UpperChars
  /\ ret[1] = "dict"
  /\ Cardinality(DOMAIN ret[2]) = 3

\* the store is the one that setUp builds from test_docs
TestStore == Self = build_from_documents(EmptyStore, test_docs)

\* C20: on the store built from the four documents of the tests, the
\* document frequency of "index" is 3, search_and(["inverted", "index"]) and
\* search_not(["index"], ["database"]) are {doc2, doc3}, search("is") is
\* empty and the term frequency of "index" in doc2 is 1.
C20_TestScenario ==
  TestStore =>
    /\ (call.op = "get_document_frequency" /\ call.text = IndexWord)
         => ret = Returned("int", 3)
    /\ (call.op = "search_and" /\ call.terms = <<InvertedWord, IndexWord>>)
         => ret = Returned("set", {"doc2", "doc3"})
    /\ (call.op = "search_not" /\ call.terms = <<IndexWord>>
                                /\ call.exclude = <<DatabaseWord>>)
         => ret = Returned("set", {"doc2", "doc3"})
    /\ (call.op = "search" /\ call.text = IsWord)
         => ret = Returned("dict", EmptyDict)
    /\ (call.op = "get_term_frequency" /\ call.text = IndexWord
                                       /\ call.doc_id = "doc2")
         => ret = Returned("int", 1)

\* C20 witness: search_not(["index"], ["database"]) has returned {doc2, doc3}
\* on the store of the four documents.
C20_Witness ==
  /\ TestStore
  /\ call.op = "search_not"
  /\ call.terms = <<IndexWord>>
  /\ call.exclude = <<DatabaseWord>>
  /\ ret = Returned("set", {"doc2", "doc3"})

\* load_from_file has returned or raised on a file that exists
Loaded == call.op = "load_from_file" /\ file # NoFile

\* C16: load_from_file of a record that lacks one of the keys index,
\* documents and doc_lengths ends in an error, KeyError when the values that
\* are there are objects; it never returns as if the missing mapping were
\* empty.
C16_MissingKeyFailsLoad ==
  (Loaded /\ DOMAIN file[1] # TopLevelKeys) =>
    /\ ret \in {Raised("KeyError"), Raised("AttributeError")}
    /\ (\A key \in DOMAIN file[1] : IsObject(file[1][key])) => ret = Raised("KeyError")

\* C16 witness: load_from_file has raised KeyError for a record of a store
\* with documents that lacks doc_lengths only.
C16_Witness ==
  /\ Loaded
  /\ DOMAIN file[1] = {"index", "documents"}
  /\ \A key \in DOMAIN file[1] : IsObject(file[1][key])
  /\ file[1].documents[2] # EmptyDict
  /\ ret = Raised("KeyError")

\* C17: load_from_file of a record in which a top-level value has the wrong
\* shape ends in an error.
C17_WrongShapeFailsLoad ==
  (Loaded /\ \E key \in DOMAIN file[1] : ~IsObject(file[1][key])) =>
    ret[1] = "raise"

\* C21: every term key of the index has at least one document, and every
\* document under it a non-empty position list.
C21_NoEmptyTermKey ==
  \A t \in DOMAIN index :
    /\ index[t] # EmptyDict
    /\ \A d \in DOMAIN index[t] : index[t][d] # << >>

\* C22: every position list of the index is strictly increasing, re-adds of
\* an id included.
C22_PositionsStrictlyIncreasing ==
  \A t \in DOMAIN index :
    \A d \in DOMAIN index[t] :
      \A i, j \in DOMAIN index[t][d] : i < j => index[t][d][i] < index[t][d][j]

\* C24: every document id that search(T) returns has T among the tokens of
\* the content that documents holds for it, re-adds with another content
\* included.
C24_LookupSound ==
  \A d \in DocIds :
    \A t \in DOMAIN index :
      d \in DOMAIN search(index, t).ret =>
        /\ d \in DOMAIN documents
        /\ t \in Range(preprocess(documents[d]))

\* the number of positions stored for doc_id under the terms of the set
RECURSIVE PositionsUnder(_, _, _)
PositionsUnder(idx, terms, doc_id) ==
  IF terms = {} THEN 0
  ELSE LET t == CHOOSE u \in terms : TRUE
       IN  Len(DictGet(idx[t], doc_id, << >>)) + PositionsUnder(idx, terms \ {t}, doc_id)

\* C25: doc_lengths[id] is the number of positions stored for the id, summed
\* over all terms, and the number of tokens of documents[id].
C25_LengthIsPositionCount ==
  \A d \in DOMAIN doc_lengths :
    /\ doc_lengths[d] = PositionsUnder(index, DOMAIN index, d)
    /\ doc_lengths[d] = Len(preprocess(documents[d]))

\* C26: documents and doc_lengths have the same keys, every document id of a
\* posting is a key of documents, and so is every id that a query returns.
C26_ReferentialIntegrity ==
  /\ DOMAIN documents = DOMAIN doc_lengths
  /\ \A t \in DOMAIN index : DOMAIN index[t] \subseteq DOMAIN documents
  /\ (call.op \in AllQueryOps /\ ret[1] = "set") => ret[2] \subseteq DOMAIN documents
  /\ (call.op \in AllQueryOps /\ ret[1] = "dict") => DOMAIN ret[2] \subseteq DOMAIN documents

\* C26 witness: a query has returned two document ids, and one of the two
\* documents has no token.
C26_Witness ==
  /\ call.op \in AllQueryOps
  /\ ret[1] = "set"
  /\ Cardinality(ret[2]) = 2
  /\ \E d \in DOMAIN documents : preprocess(documents[d]) = << >>

\* C28: no stop word and no empty string is a term key of the index, and
\* search of a stop word returns the empty mapping.
C28_NoStopWordKey ==
  /\ \A t \in DOMAIN index : t \notin stop_words /\ t # << >>
  /\ (call.op = "search" /\ call.text \in stop_words) => ret = Returned("dict", EmptyDict)

\* C28 witness: search of a stop word has returned the empty mapping on a
\* store with a document whose content begins with that stop word and has
\* another word, which is a term key.
C28_Witness ==
  /\ call.op = "search"
  /\ call.text \in stop_words
  /\ ret = Returned("dict", EmptyDict)
  /\ \E d \in DOMAIN documents :
       /\ Len(documents[d]) > Len(call.text)
       /\ SubSeq(documents[d], 1, Len(call.text)) = call.text
       /\ \E t \in DOMAIN index : d \in DOMAIN index[t]

\* C29: add_document changes, of what the store holds per document, the
\* entries of its own id only: the content, the length and the position
\* list under every term of every other id are unchanged.
C29_AddDocumentFrame ==
  [][ call'.op = "add_document" =>
        \A d \in DocIds \ {call'.doc_id} : OfDoc(Self', d) = OfDoc(Self, d)
    ]_vars

\* C29 witness: add_document has returned on a store that holds another
\* document with a term of the added content.
C29_Witness ==
  /\ call.op = "add_document"
  /\ \E d \in DOMAIN documents \ {call.doc_id} :
       \E t \in Range(preprocess(call.text)) : HasPosting(index, t, d)

\* C23: a load_from_file call that ends in an error leaves index, documents
\* and doc_lengths as they were before the call.
C23_FailedLoadLeavesStore ==
  [][ (call'.op = "load_from_file" /\ ret'[1] = "raise") => Self' = Self ]_vars

\* the maximal runs of [a-z0-9] of s from position p on, left to right
RECURSIVE MaximalRuns(_, _)
MaximalRuns(s, p) ==
  IF p > Len(s) THEN << >>
  ELSE IF ~TokenChar(s[p]) THEN MaximalRuns(s, p + 1)
  ELSE LET e == CHOOSE q \in (p + 1)..(Len(s) + 1) :
                  /\ \A i \in p..(q - 1) : TokenChar(s[i])
                  /\ q = Len(s) + 1 \/ ~TokenChar(s[q])
       IN  <<SubSeq(s, p, e - 1)>> \o MaximalRuns(s, e)

NotInStopWords(token) == token \notin stop_words

\* C27: preprocess returns, in left-to-right order, exactly the maximal runs
\* of [a-z0-9] of the lower-cased text that are not stop words; every other
\* character, an underscore or a non-ASCII letter next to a run included,
\* separates and suppresses nothing.
C27_TokensAreMaximalRuns ==
  call.op = "preprocess" =>
    ret = Returned("list",
            SelectSeq(MaximalRuns([i \in DOMAIN call.text |-> ToLower(call.text[i])], 1),
                      NotInStopWords))

\* the add_document call in progress has stored the content of its document
\* and has not yet appended all its positions
PartlyInserted ==
  /\ writer.pc \in {"doc_lengths", "index"}
  /\ writer.position < Len(preprocess(writer.content))

\* C30: no query runs between the statements of an add_document call while
\* the document of the call is in documents and its postings are not all
\* inserted.
C30_QueriesNeverSeePartialAdd ==
  [][ (call = Idle /\ call'.op \in AllQueryOps) => ~PartlyInserted ]_vars

=============================================================================
